---- MODULE Spec2Model ----
(***************************************************************************)
(* Model of azure/login/login.go: AzureLoginService.Login (browser OAuth2  *)
(* authorization-code login) and AzureLoginService.GetValidToken (read,    *)
(* validity check, refresh, write), running concurrently on one token      *)
(* store.  One Login execution ("L") and two GetValidToken executions      *)
(* ("G1", "G2") interleave with the clock, the cancellation signal and the *)
(* browser callback.                                                       *)
(***************************************************************************)
EXTENDS Integers, Sequences, FiniteSets, TLC

VARIABLES
    store,      \* tokenStore file: NoCredential or a TokenInfo
    now,        \* time.Now(), in seconds
    ctxDone,    \* ctx.Done() of the Login context is closed
    queryCh,    \* queryCh, chan url.Values of capacity 1 (a sequence)
    listener,   \* callback listener: "Idle", "Listening", "Delivered"
    pc,         \* position of each execution
    lQs,        \* Login: qsValues
    lCode,      \* Login: code, hasCode := qsValues["code"]
    lToken,     \* Login: token (azureToken of the code exchange)
    lDiscovery, \* Login: err, statusCode and decoded bits of the discovery
    lTenantID,  \* Login: tenantID
    lTenantToken, \* Login: tenantToken
    gInfo,      \* GetValidToken: loginInfo
    gToken,     \* GetValidToken: token
    result,     \* what each execution returned: [err, token]
    calls,      \* per execution: the apiHelper calls it made, in order
    writes,     \* per execution: the writeLoginInfo calls it made, in order
    conv,       \* per execution: the response toOAuthToken converted, and when
    cancelledAt \* the phase Login was in when its context was cancelled

vars == <<store, now, ctxDone, queryCh, listener, pc, lQs, lCode, lToken,
          lDiscovery, lTenantID, lTenantToken, gInfo, gToken, result, calls,
          writes, conv, cancelledAt>>

----------------------------------------------------------------------------
(* Bounds of the model *)

\* the clock runs from 0 to MaxTime seconds
MaxTime == 10
\* one clock step, in seconds
TickSeconds == 5

(* golang.org/x/oauth2: Token.Valid() treats a token as expired            *)
(* expiryDelta = 10 seconds before its Expiry.                             *)
expiryDelta == 10
\* the zero time.Time of oauth2.Token{}: Valid() takes it as "never expires"
ZeroTime == -1

----------------------------------------------------------------------------
(* Values *)

Getters == {"G1", "G2"}
Procs == {"L"} \cup Getters

scopes == "offline_access https://management.azure.com/.default"
clientID == "04b07795-8ddb-461a-bbee-02f9e1bf7b46"
authorizationURL == "https://management.azure.com/tenants?api-version=2019-11-01"

\* expires_in values the provider sends
LongExpiresIn == 15
ExpiresInValues == {0, LongExpiresIn}

\* oauth2.Token{}
EmptyToken == [AccessToken |-> "", RefreshToken |-> "", TokenType |-> "",
               Expiry |-> ZeroTime]

\* azureToken{}
EmptyAzureToken == [Type |-> "", ExpiresIn |-> 0, AccessToken |-> "",
                    RefreshToken |-> ""]

NoCredential == [TenantID |-> "", Token |-> EmptyToken, present |-> FALSE]

TokenInfo(tenantID, token) ==
    [TenantID |-> tenantID, Token |-> token, present |-> TRUE]

\* error values: nil, or a message with the value or cause it carries
Nil == [msg |-> "nil", cause |-> ""]
Err(msg, cause) == [msg |-> msg, cause |-> cause]

\* url.Values delivered by the browser redirect
QueryValues ==
    { ("code" :> "c1"),
      ("error" :> "access_denied"),
      ("error" :> "access_denied") @@ ("code" :> "c1"),
      ("state" :> "s1") }

\* qsValues before anything was received
NoValues == ("none" :> "")

\* what queryAuthorizationAPI returns: an error, or a status code and a
\* body (bits) that json.Unmarshal decodes to tenantResult.Value or rejects
NoDiscovery == [err |-> FALSE, statusCode |-> 0, valid |-> FALSE, value |-> <<>>]

\* nothing converted yet
NoConversion == [response |-> EmptyAzureToken, at |-> 0, done |-> FALSE]

\* the opaque strings the provider issues, named after the issuing endpoint
AccessTokenOf(endpoint) ==
    CASE endpoint = "organizations" -> "at_organizations"
      [] endpoint = "t1" -> "at_t1"
      [] endpoint = "t2" -> "at_t2"

RefreshTokenOf(endpoint) ==
    CASE endpoint = "organizations" -> "rt_organizations"
      [] endpoint = "t1" -> "rt_t1"
      [] endpoint = "t2" -> "rt_t2"

\* the successful token responses of the endpoint: expires_in is 0 or
\* positive, and the access token may be missing from the JSON body
\* (decoded as "")
AzureTokens(endpoint) ==
    { [Type |-> "Bearer", ExpiresIn |-> e,
       AccessToken |-> AccessTokenOf(endpoint),
       RefreshToken |-> RefreshTokenOf(endpoint)] : e \in ExpiresInValues }
    \cup
    { [Type |-> "Bearer", ExpiresIn |-> LongExpiresIn, AccessToken |-> "",
       RefreshToken |-> RefreshTokenOf(endpoint)] }

\* the successful responses of the code exchange
CodeExchangeTokens ==
    { [Type |-> "Bearer", ExpiresIn |-> LongExpiresIn,
       AccessToken |-> AccessTokenOf("organizations"),
       RefreshToken |-> RefreshTokenOf("organizations")] }

\* tenant discovery bodies that decode: the tenantResult.Value sequences
TenantLists == { <<>>, <<"t2", "t1">> }

----------------------------------------------------------------------------
(* Pure functions *)

\* toOAuthToken keeping the relative expires_in as the expiry
toOAuthTokenRelativeExpiry(token, t) ==
    [AccessToken |-> token.AccessToken,
     RefreshToken |-> token.RefreshToken,
     TokenType |-> token.Type,
     Expiry |-> token.ExpiresIn]

\* toOAuthToken, with time.Now() = t
toOAuthToken(token, t) ==
    [AccessToken |-> token.AccessToken,
     RefreshToken |-> token.RefreshToken,
     TokenType |-> token.Type,
     Expiry |-> t + token.ExpiresIn]

\* oauth2.Token.expired at time t
expired(token, t) ==
    IF token.Expiry = ZeroTime THEN FALSE
    ELSE token.Expiry - expiryDelta < t

\* Valid with the boundary off by one: expired already when exactly
\* expiryDelta remains
ValidStrictlyBeyondDelta(token, t) ==
    token.AccessToken # "" /\ token.Expiry - expiryDelta > t

\* oauth2.Token.Valid at time t
Valid(token, t) ==
    token.AccessToken # "" /\ ~expired(token, t)

\* a queryToken call: its form data, the tenant of the endpoint, and
\* whether it succeeded
TokenCall(grant, secret, endpoint, ok) ==
    [api |-> "queryToken", grant_type |-> grant, client_id |-> clientID,
     scope |-> scopes, secret |-> secret, endpoint |-> endpoint, ok |-> ok]

\* a queryAuthorizationAPI call: the URL and the bearer token
AuthorizationCall(accessToken, ok) ==
    [api |-> "queryAuthorizationAPI", grant_type |-> "", client_id |-> "",
     scope |-> "", secret |-> accessToken, endpoint |-> authorizationURL,
     ok |-> ok]

\* refreshToken's request: grant_type=refresh_token with the refresh token
\* given, against the tenant given
RefreshCall(currentRefreshToken, tenantID, ok) ==
    TokenCall("refresh_token", currentRefreshToken, tenantID, ok)

\* the status check taking every status below 500 as success
StatusOKBelow500(statusCode) == statusCode < 500

\* if statusCode == 200
StatusOK(statusCode) == statusCode = 200

\* tokenStore.readToken: the stored login info, or the not-found error
readToken(s) ==
    IF s.present THEN [loginInfo |-> s, err |-> Nil]
    ELSE [loginInfo |-> NoCredential, err |-> Err("not found", "NotFound")]

\* tokenStore.writeLoginInfo: the file after the call: replaced whole, or
\* left as it was when the write fails
writeLoginInfo(s, loginInfo, ok) == IF ok THEN loginInfo ELSE s

----------------------------------------------------------------------------
(* Initial state: a store that is empty or holds the credential of an     *)
(* earlier login, nothing started.                                         *)

InitialStores ==
    {NoCredential} \cup
    { TokenInfo("t1", toOAuthToken(a, 0)) :
        a \in {r \in AzureTokens("t1") : r.AccessToken # ""} }

Init ==
    /\ store \in InitialStores
    /\ now = 0
    /\ ctxDone = FALSE
    /\ queryCh = <<>>
    /\ listener = "Idle"
    /\ pc = [p \in Procs |-> "start"]
    /\ lQs = NoValues
    /\ lCode = ""
    /\ lToken = EmptyAzureToken
    /\ lDiscovery = NoDiscovery
    /\ lTenantID = ""
    /\ lTenantToken = EmptyToken
    /\ gInfo = [g \in Getters |-> NoCredential]
    /\ gToken = [g \in Getters |-> EmptyToken]
    /\ result = [p \in Procs |-> [err |-> Nil, token |-> EmptyToken]]
    /\ calls = [p \in Procs |-> <<>>]
    /\ writes = [p \in Procs |-> <<>>]
    /\ conv = [p \in Procs |-> NoConversion]
    /\ cancelledAt = "never"

----------------------------------------------------------------------------
(* Helpers *)

\* an execution returns: its position and what it returned
Return(p, err, token) ==
    /\ pc' = [pc EXCEPT ![p] = "done"]
    /\ result' = [result EXCEPT ![p] = [err |-> err, token |-> token]]

Goto(p, label) ==
    /\ pc' = [pc EXCEPT ![p] = label]
    /\ UNCHANGED result

Call(p, call) == calls' = [calls EXCEPT ![p] = Append(@, call)]

Write(p, loginInfo, ok) ==
    writes' = [writes EXCEPT ![p] = Append(@, [info |-> loginInfo, ok |-> ok])]

\* refreshToken hands the response to toOAuthToken at time now
Convert(p, token) ==
    conv' = [conv EXCEPT ![p] = [response |-> token, at |-> now, done |-> TRUE]]

----------------------------------------------------------------------------
(* Environment *)

\* time passes
Tick ==
    /\ now + TickSeconds <= MaxTime
    /\ now' = now + TickSeconds
    /\ UNCHANGED <<store, ctxDone, queryCh, listener, pc, lQs, lCode, lToken,
                   lDiscovery, lTenantID, lTenantToken, gInfo, gToken, result,
                   calls, writes,
                   conv, cancelledAt>>

\* where Login is: before or in its select, past it, or ended
LoginPhase ==
    IF pc["L"] \in {"start", "select"} THEN "waiting"
    ELSE IF pc["L"] \in {"done", "panic"} THEN "ended"
    ELSE "running"

\* the caller cancels the Login context
Cancel ==
    /\ ~ctxDone
    /\ ctxDone' = TRUE
    /\ cancelledAt' = LoginPhase
    /\ UNCHANGED <<store, now, queryCh, listener, pc, lQs, lCode, lToken,
                   lDiscovery, lTenantID, lTenantToken, gInfo, gToken, result,
                   calls, writes,
                   conv>>

\* make(chan url.Values, 1)
QueryChCapacity == 1

\* an unbuffered channel, make(chan url.Values): a send goes through only
\* while Login waits in its select
CanSendUnbuffered(ch) == Len(ch) < 1 /\ pc["L"] = "select"

\* a send on the channel does not block: the buffer has room
CanSend(ch) == Len(ch) < QueryChCapacity

\* the callback listener takes its one request, puts the query parameters
\* in the channel and stops accepting
HandleCallback ==
    /\ listener = "Listening"
    /\ CanSend(queryCh)
    /\ \E qs \in QueryValues : queryCh' = Append(queryCh, qs)
    /\ listener' = "Delivered"
    /\ UNCHANGED <<store, now, ctxDone, pc, lQs, lCode, lToken, lDiscovery,
                   lTenantID, lTenantToken, gInfo, gToken, result, calls,
                   writes,
                   conv, cancelledAt>>

----------------------------------------------------------------------------
(* Login *)

\* queryCh := make(chan url.Values, 1); startLoginServer(queryCh) binds a
\* port and listens, or fails; openAzureLoginPage(redirectURL)
LoginStart ==
    /\ pc["L"] = "start"
    /\ queryCh' = <<>>
    /\ \/ /\ listener' = "Listening"
          /\ Goto("L", "select")
       \/ /\ listener' = listener
          /\ Return("L", Err("listen failed", "BindError"), EmptyToken)
    /\ UNCHANGED <<store, now, ctxDone, lQs, lCode, lToken, lDiscovery,
                   lTenantID, lTenantToken, gInfo, gToken, calls, writes,
                   conv, cancelledAt>>

\* the cancellation branch returning the context's error
LoginCancelledReturnsErr ==
    /\ pc["L"] = "select"
    /\ ctxDone
    /\ Return("L", Err("context canceled", ""), EmptyToken)
    /\ UNCHANGED <<store, now, ctxDone, queryCh, listener, lQs, lCode, lToken,
                   lDiscovery, lTenantID, lTenantToken, gInfo, gToken, calls,
                   writes,
                   conv, cancelledAt>>

\* case <-ctx.Done(): return nil
LoginCancelled ==
    /\ pc["L"] = "select"
    /\ ctxDone
    /\ Return("L", Nil, EmptyToken)
    /\ UNCHANGED <<store, now, ctxDone, queryCh, listener, lQs, lCode, lToken,
                   lDiscovery, lTenantID, lTenantToken, gInfo, gToken, calls,
                   writes,
                   conv, cancelledAt>>

\* the checks in the other order: a code wins over an error
CallbackOutcomeCodeFirst(qsValues) ==
    IF "code" \in DOMAIN qsValues THEN "exchange"
    ELSE IF "error" \in DOMAIN qsValues THEN "error"
    ELSE "nocode"

\* the hasCode check left out
CallbackOutcomeNoCodeCheck(qsValues) ==
    IF "error" \in DOMAIN qsValues THEN "error" ELSE "exchange"

\* what Login does with the query parameters it received: the hasError
\* check, then the hasCode check
CallbackOutcome(qsValues) ==
    IF "error" \in DOMAIN qsValues THEN "error"
    ELSE IF "code" \notin DOMAIN qsValues THEN "nocode"
    ELSE "exchange"

\* qsValues["code"]: the value, or the zero value when the key is missing
CodeOf(qsValues) ==
    IF "code" \in DOMAIN qsValues THEN qsValues["code"] ELSE ""

\* qsValues["error"]
ErrorOf(qsValues) ==
    IF "error" \in DOMAIN qsValues THEN qsValues["error"] ELSE ""

\* case qsValues := <-queryCh: the error and code checks
LoginReceive ==
    /\ pc["L"] = "select"
    /\ queryCh # <<>>
    /\ LET qsValues == Head(queryCh) IN
        /\ queryCh' = Tail(queryCh)
        /\ lQs' = qsValues
        /\ \/ /\ CallbackOutcome(qsValues) = "error"
              /\ lCode' = lCode
              /\ Return("L", Err("login failed : %s", ErrorOf(qsValues)),
                        EmptyToken)
           \/ /\ CallbackOutcome(qsValues) = "nocode"
              /\ lCode' = CodeOf(qsValues)
              /\ Return("L", Err("login failed", ""), EmptyToken)
           \/ /\ CallbackOutcome(qsValues) = "exchange"
              /\ lCode' = CodeOf(qsValues)
              /\ Goto("L", "queryToken")
    /\ UNCHANGED <<store, now, ctxDone, listener, lToken, lDiscovery,
                   lTenantID, lTenantToken, gInfo, gToken, calls, writes,
                   conv, cancelledAt>>

\* the code exchange giving up, with the context's error and no call, when
\* the context is cancelled
LoginQueryTokenAbortsOnCancel ==
    /\ pc["L"] = "queryToken"
    /\ IF ctxDone
       THEN /\ lToken' = lToken
            /\ calls' = calls
            /\ Return("L", Err("context canceled", ""), EmptyToken)
       ELSE \/ \E token \in CodeExchangeTokens :
                 /\ lToken' = token
                 /\ Call("L", TokenCall("authorization_code", lCode,
                                        "organizations", TRUE))
                 /\ Goto("L", "queryAuthorizationAPI")
            \/ /\ lToken' = lToken
               /\ Call("L", TokenCall("authorization_code", lCode,
                                      "organizations", FALSE))
               /\ Return("L", Err("Access token request failed", "AuthError"),
                         EmptyToken)
    /\ UNCHANGED <<store, now, ctxDone, queryCh, listener, lQs, lCode,
                   lDiscovery, lTenantID, lTenantToken, gInfo, gToken, writes,
                   conv, cancelledAt>>

\* the code exchange persisting the "organizations" token at once, before
\* tenant discovery
LoginQueryTokenPersistsEarly ==
    /\ pc["L"] = "queryToken"
    /\ \/ \E token \in CodeExchangeTokens :
            /\ lToken' = token
            /\ store' = TokenInfo("organizations", toOAuthToken(token, now))
            /\ Call("L", TokenCall("authorization_code", lCode,
                                   "organizations", TRUE))
            /\ Goto("L", "queryAuthorizationAPI")
       \/ /\ lToken' = lToken
          /\ store' = store
          /\ Call("L", TokenCall("authorization_code", lCode,
                                 "organizations", FALSE))
          /\ Return("L", Err("Access token request failed", "AuthError"),
                    EmptyToken)
    /\ UNCHANGED <<now, ctxDone, queryCh, listener, lQs, lCode,
                   lDiscovery, lTenantID, lTenantToken, gInfo, gToken, writes,
                   conv, cancelledAt>>

\* token, err := login.apiHelper.queryToken(data, "organizations")
LoginQueryToken ==
    /\ pc["L"] = "queryToken"
    /\ \/ \E token \in CodeExchangeTokens :
            /\ lToken' = token
            /\ Call("L", TokenCall("authorization_code", lCode,
                                   "organizations", TRUE))
            /\ Goto("L", "queryAuthorizationAPI")
       \/ /\ lToken' = lToken
          /\ Call("L", TokenCall("authorization_code", lCode,
                                 "organizations", FALSE))
          /\ Return("L", Err("Access token request failed", "AuthError"),
                    EmptyToken)
    /\ UNCHANGED <<store, now, ctxDone, queryCh, listener, lQs, lCode,
                   lDiscovery, lTenantID, lTenantToken, gInfo, gToken, writes,
                   conv, cancelledAt>>

\* the results of queryAuthorizationAPI: a request error, or a status code
\* with a body that does not decode, or that decodes to a tenant sequence
DiscoveryOutcomes ==
    { [err |-> TRUE, statusCode |-> 0, valid |-> FALSE, value |-> <<>>],
      [err |-> FALSE, statusCode |-> 200, valid |-> FALSE, value |-> <<>>] }
    \cup
    { [err |-> FALSE, statusCode |-> c, valid |-> TRUE, value |-> v] :
        c \in {200, 401}, v \in TenantLists }

\* bits, statusCode, err := login.apiHelper.queryAuthorizationAPI(...), the
\* status check, json.Unmarshal and tenantResult.Value[0]
LoginQueryAuthorizationAPI ==
    /\ pc["L"] = "queryAuthorizationAPI"
    /\ \E d \in DiscoveryOutcomes :
        /\ lDiscovery' = d
        /\ Call("L", AuthorizationCall(lToken.AccessToken, ~d.err))
        /\ IF d.err
           THEN /\ lTenantID' = lTenantID
                /\ Return("L", Err("login failed", "request error"), EmptyToken)
           ELSE IF ~StatusOK(d.statusCode)
           THEN /\ lTenantID' = lTenantID
                /\ Return("L", Err("login failed : ", "bits"), EmptyToken)
           ELSE IF ~d.valid
           THEN /\ lTenantID' = lTenantID
                /\ Return("L", Err("login failed", "ParseError"), EmptyToken)
           ELSE IF Len(d.value) = 0
           THEN \* tenantResult.Value[0]: index out of range
                /\ lTenantID' = lTenantID
                /\ pc' = [pc EXCEPT !["L"] = "panic"]
                /\ result' = [result EXCEPT !["L"] =
                       [err |-> Err("panic", "index out of range"),
                        token |-> EmptyToken]]
           ELSE /\ lTenantID' = d.value[1]
                /\ Goto("L", "refreshToken")
    /\ UNCHANGED <<store, now, ctxDone, queryCh, listener, lQs, lCode, lToken,
                   lTenantToken, gInfo, gToken, writes,
                   conv, cancelledAt>>

\* tenantToken, err := login.refreshToken(token.RefreshToken, tenantID)
LoginRefreshToken ==
    /\ pc["L"] = "refreshToken"
    /\ \/ \E token \in AzureTokens(lTenantID) :
            /\ lTenantToken' = toOAuthToken(token, now)
            /\ Convert("L", token)
            /\ Call("L", RefreshCall(lToken.RefreshToken, lTenantID, TRUE))
            /\ Goto("L", "writeLoginInfo")
       \/ /\ lTenantToken' = lTenantToken
          /\ conv' = conv
          /\ Call("L", RefreshCall(lToken.RefreshToken, lTenantID, FALSE))
          /\ Return("L", Err("login failed", "AuthError"), EmptyToken)
    /\ UNCHANGED <<store, now, ctxDone, queryCh, listener, lQs, lCode, lToken,
                   lDiscovery, lTenantID, gInfo, gToken, writes,
                   cancelledAt>>

\* the login info built from the token of the code exchange
LoginInfoCodeExchangeToken == TokenInfo(lTenantID, toOAuthToken(lToken, now))

\* loginInfo := TokenInfo{TenantID: tenantID, Token: tenantToken}
LoginInfo == TokenInfo(lTenantID, lTenantToken)

\* err = login.tokenStore.writeLoginInfo(loginInfo)
LoginWrite ==
    /\ pc["L"] = "writeLoginInfo"
    /\ \E ok \in BOOLEAN :
        /\ store' = writeLoginInfo(store, LoginInfo, ok)
        /\ Write("L", LoginInfo, ok)
        /\ IF ok THEN Return("L", Nil, EmptyToken)
           ELSE Return("L", Err("login failed", "IOError"), EmptyToken)
    /\ UNCHANGED <<now, ctxDone, queryCh, listener, lQs, lCode, lToken,
                   lDiscovery, lTenantID, lTenantToken, gInfo, gToken, calls,
                   conv, cancelledAt>>

Login ==
    \/ LoginStart
    \/ LoginCancelled
    \/ LoginReceive
    \/ LoginQueryToken
    \/ LoginQueryAuthorizationAPI
    \/ LoginRefreshToken
    \/ LoginWrite

----------------------------------------------------------------------------
(* GetValidToken *)

\* the read with its err check left out
GetReadIgnoresErr(g) ==
    /\ pc[g] = "start"
    /\ LET r == readToken(store) IN
        /\ gInfo' = [gInfo EXCEPT ![g] = r.loginInfo]
        /\ IF Valid(r.loginInfo.Token, now)
           THEN Return(g, Nil, r.loginInfo.Token)
           ELSE Goto(g, "refreshToken")
    /\ UNCHANGED <<store, now, ctxDone, queryCh, listener, lQs, lCode, lToken,
                   lDiscovery, lTenantID, lTenantToken, gToken, calls, writes,
                   conv, cancelledAt>>

\* loginInfo, err := login.tokenStore.readToken(); token.Valid()
GetRead(g) ==
    /\ pc[g] = "start"
    /\ LET r == readToken(store) IN
        IF r.err # Nil
        THEN /\ Return(g, r.err, EmptyToken)
             /\ UNCHANGED gInfo
        ELSE /\ gInfo' = [gInfo EXCEPT ![g] = r.loginInfo]
             /\ IF Valid(r.loginInfo.Token, now)
                THEN Return(g, Nil, r.loginInfo.Token)
                ELSE Goto(g, "refreshToken")
    /\ UNCHANGED <<store, now, ctxDone, queryCh, listener, lQs, lCode, lToken,
                   lDiscovery, lTenantID, lTenantToken, gToken, calls, writes,
                   conv, cancelledAt>>

\* the failed refresh tried again
GetRefreshFailedRetries(g) ==
    /\ gToken' = gToken
    /\ conv' = conv
    /\ Call(g, RefreshCall(gInfo[g].Token.RefreshToken, gInfo[g].TenantID,
                           FALSE))
    /\ Goto(g, "refreshToken")

\* the err check after refreshToken left out: the empty token it returned
\* goes on to the store
GetRefreshFailedGoesOn(g) ==
    /\ gToken' = [gToken EXCEPT ![g] = EmptyToken]
    /\ conv' = conv
    /\ Call(g, RefreshCall(gInfo[g].Token.RefreshToken, gInfo[g].TenantID,
                           FALSE))
    /\ Goto(g, "writeLoginInfo")

\* if err != nil { return oauth2.Token{}, errors.Wrap(err, "access token
\* request failed. Maybe you need to login to azure again.") }
GetRefreshFailed(g) ==
    /\ gToken' = gToken
    /\ conv' = conv
    /\ Call(g, RefreshCall(gInfo[g].Token.RefreshToken, gInfo[g].TenantID,
                           FALSE))
    /\ Return(g, Err("access token request failed. Maybe you need to login to azure again.",
                     "AuthError"), EmptyToken)

\* token, err = login.refreshToken(token.RefreshToken, tenantID)
GetRefreshToken(g) ==
    /\ pc[g] = "refreshToken"
    /\ \/ \E token \in AzureTokens(gInfo[g].TenantID) :
            /\ gToken' = [gToken EXCEPT ![g] = toOAuthToken(token, now)]
            /\ Convert(g, token)
            /\ Call(g, RefreshCall(gInfo[g].Token.RefreshToken,
                                   gInfo[g].TenantID, TRUE))
            /\ Goto(g, "writeLoginInfo")
       \/ GetRefreshFailed(g)
    /\ UNCHANGED <<store, now, ctxDone, queryCh, listener, lQs, lCode, lToken,
                   lDiscovery, lTenantID, lTenantToken, gInfo, writes,
                   cancelledAt>>

\* the login info written with the tenant in the store at the time of the
\* write
GetLoginInfoStoredTenant(g) == TokenInfo(store.TenantID, gToken[g])

\* the login info written with the token that was read, not the new one
GetLoginInfoOldToken(g) == TokenInfo(gInfo[g].TenantID, gInfo[g].Token)

\* TokenInfo{TenantID: tenantID, Token: token}
GetLoginInfo(g) == TokenInfo(gInfo[g].TenantID, gToken[g])

\* err = login.tokenStore.writeLoginInfo(...); return token, nil
GetWrite(g) ==
    /\ pc[g] = "writeLoginInfo"
    /\ \E ok \in BOOLEAN :
        /\ store' = writeLoginInfo(store, GetLoginInfo(g), ok)
        /\ Write(g, GetLoginInfo(g), ok)
        /\ IF ok THEN Return(g, Nil, gToken[g])
           ELSE Return(g, Err("write failed", "IOError"), EmptyToken)
    /\ UNCHANGED <<now, ctxDone, queryCh, listener, lQs, lCode, lToken,
                   lDiscovery, lTenantID, lTenantToken, gInfo, gToken, calls,
                   conv, cancelledAt>>

GetValidToken(g) ==
    \/ GetRead(g)
    \/ GetRefreshToken(g)
    \/ GetWrite(g)

----------------------------------------------------------------------------

Next ==
    \/ Tick
    \/ Cancel
    \/ HandleCallback
    \/ Login
    \/ \E g \in Getters : GetValidToken(g)

Spec == Init /\ [][Next]_vars

\* every call Login makes returns, and a ready branch of its select is taken
FairSpec == Spec /\ WF_vars(Login)

----------------------------------------------------------------------------
(* Properties of GetValidToken *)

\* the refresh exchange of GetValidToken execution g was made and succeeded
RefreshSucceeded(g) == calls[g] # <<>> /\ calls[g][1].ok

\* the refresh exchange of GetValidToken execution g was made and failed
RefreshFailed(g) == calls[g] # <<>> /\ ~calls[g][1].ok

\* GetValidToken g takes its first step now, from a store holding a token
Checks(g) == pc[g] = "start" /\ pc'[g] # "start" /\ store.present

\* that step returned the stored token with no call and no write
ReturnedStored(g) ==
    /\ pc'[g] = "done"
    /\ result'[g] = [err |-> Nil, token |-> store.Token]
    /\ calls'[g] = <<>>
    /\ writes'[g] = <<>>
    /\ store' = store

(* C1, as claimed: whenever the stored token's expiry is strictly later    *)
(* than the time of the check, GetValidToken returns the stored token      *)
(* unchanged, with no queryToken call and no store write.                  *)
C1_StrictlyFutureReturned ==
    [][\A g \in Getters :
        (Checks(g) /\ store.Token.Expiry > now) => ReturnedStored(g)]_vars

(* C1, amended: whenever the stored token has a non-empty access token and *)
(* its expiry is at least expiryDelta (10 s) later than the time of the    *)
(* check, GetValidToken returns the stored token unchanged, with no        *)
(* queryToken call and no store write.                                     *)
C1_BeyondDeltaReturned ==
    [][\A g \in Getters :
        (Checks(g) /\ store.Token.AccessToken # ""
                   /\ store.Token.Expiry >= now + expiryDelta)
            => ReturnedStored(g)]_vars

\* a GetValidToken returned the stored token at exactly expiryDelta before
\* its expiry
C1_Witness ==
    \E g \in Getters :
        /\ pc[g] = "done"
        /\ gInfo[g].present
        /\ result[g] = [err |-> Nil, token |-> gInfo[g].Token]
        /\ gInfo[g].Token.Expiry = now + expiryDelta
        /\ calls[g] = <<>>

(* C2, as claimed: a GetValidToken whose refresh exchange succeeded has,   *)
(* when it returns, called queryToken exactly once (refresh_token grant,   *)
(* the stored refresh token, the stored tenant) and completed the write of *)
(* {stored tenant, new token}; it returns the token it wrote.              *)
C2_RefreshThenPersisted ==
    \A g \in Getters :
        (pc[g] = "done" /\ RefreshSucceeded(g)) =>
            /\ calls[g] = <<RefreshCall(gInfo[g].Token.RefreshToken,
                                        gInfo[g].TenantID, TRUE)>>
            /\ writes[g] = <<[info |-> TokenInfo(gInfo[g].TenantID,
                                                 result[g].token),
                              ok |-> TRUE]>>
            /\ result[g].err = Nil

(* C2, amended: a GetValidToken whose refresh exchange succeeded has, when *)
(* it returns, called queryToken exactly once (refresh_token grant, the    *)
(* stored refresh token, the stored tenant) and attempted exactly one      *)
(* write, of {stored tenant, new token}; if the write succeeded it returns *)
(* the token it wrote, and if the write failed it returns the write error  *)
(* and no token.                                                           *)
C2_RefreshThenWriteAttempted ==
    \A g \in Getters :
        (pc[g] = "done" /\ RefreshSucceeded(g)) =>
            /\ calls[g] = <<RefreshCall(gInfo[g].Token.RefreshToken,
                                        gInfo[g].TenantID, TRUE)>>
            /\ Len(writes[g]) = 1
            /\ writes[g][1].info = TokenInfo(gInfo[g].TenantID, gToken[g])
            /\ IF writes[g][1].ok
               THEN result[g] = [err |-> Nil, token |-> writes[g][1].info.Token]
               ELSE /\ result[g].err = Err("write failed", "IOError")
                    /\ result[g].token = EmptyToken

\* a GetValidToken refreshed an expired token, wrote it and returned it
C2_Witness ==
    \E g \in Getters :
        /\ pc[g] = "done"
        /\ RefreshSucceeded(g)
        /\ writes[g] # <<>>
        /\ writes[g][1].ok
        /\ result[g].token = gToken[g]
        /\ result[g].token # gInfo[g].Token
        /\ store = writes[g][1].info

(* C3: a GetValidToken whose refresh exchange fails returns the error      *)
(* wrapped with the re-login hint and no token, has made no store write,   *)
(* and none of its steps (the read, the failed refresh) changes the store. *)
C3_RefreshFailureLeavesStore ==
    [][\A g \in Getters :
        /\ (pc[g] \in {"start", "refreshToken"} /\ pc'[g] # pc[g])
                => store' = store
        /\ (pc[g] # "done" /\ pc'[g] = "done" /\ RefreshFailed(g)')
                => /\ result'[g].err = Err("access token request failed. Maybe you need to login to azure again.",
                                           "AuthError")
                   /\ result'[g].token = EmptyToken
                   /\ Len(calls'[g]) = 1
                   /\ writes'[g] = <<>>]_vars

\* a GetValidToken returned after a failed refresh, the store still holding
\* the expired credential it read
C3_Witness ==
    \E g \in Getters :
        /\ pc[g] = "done"
        /\ RefreshFailed(g)
        /\ result[g].err # Nil
        /\ store = gInfo[g]
        /\ store.present

----------------------------------------------------------------------------
(* Properties of Login *)

\* Login has returned, or faulted
LoginEnded == pc["L"] \in {"done", "panic"}

\* Login made no network call and no store write
LoginDidNothing == calls["L"] = <<>> /\ writes["L"] = <<>>

(* C4: once Login has received callback parameters with an "error" key,    *)
(* with or without a "code" key, it has returned the login-failed error    *)
(* carrying that value, with no network call and no store write.           *)
C4_ErrorKeyFails ==
    "error" \in DOMAIN lQs =>
        /\ pc["L"] = "done"
        /\ result["L"].err = Err("login failed : %s", lQs["error"])
        /\ LoginDidNothing

\* Login returned on a callback carrying both an error and a code
C4_Witness ==
    /\ pc["L"] = "done"
    /\ "error" \in DOMAIN lQs
    /\ "code" \in DOMAIN lQs
    /\ result["L"].err.msg = "login failed : %s"

(* C5: a step Login takes from its waiting select while the context is     *)
(* cancelled and the pending channel is empty returns nil, with no network *)
(* call and no store write made.                                           *)
C5_CancelledReturnsNil ==
    [][(pc["L"] = "select" /\ pc'["L"] # "select" /\ ctxDone /\ queryCh = <<>>)
        => /\ pc'["L"] = "done"
           /\ result'["L"].err = Nil
           /\ calls'["L"] = <<>>
           /\ writes'["L"] = <<>>
           /\ store' = store]_vars

\* Login returned nil on cancellation, no callback having arrived
C5_Witness ==
    /\ pc["L"] = "done"
    /\ ctxDone
    /\ lQs = NoValues
    /\ queryCh = <<>>
    /\ listener = "Listening"
    /\ result["L"].err = Nil

\* discovery answered 200 with a body decoding to no tenant
EmptyTenants ==
    /\ ~lDiscovery.err
    /\ lDiscovery.statusCode = 200
    /\ lDiscovery.valid
    /\ lDiscovery.value = <<>>

(* C6, as claimed: when discovery answers 200 with an empty tenant         *)
(* sequence, Login returns a login-failed error value (no index-out-of-    *)
(* range fault), without a tenant-scoped refresh exchange or store write.  *)
C6_EmptyTenantsLoginFailed ==
    EmptyTenants =>
        /\ pc["L"] = "done"
        /\ result["L"].err.msg \in {"login failed", "login failed : "}
        /\ Len(calls["L"]) = 2
        /\ writes["L"] = <<>>

(* C7: a Login step changes the store only if it is the step that returns  *)
(* nil, so a Login that ends in failure (an error returned at any step, or *)
(* a fault) has changed nothing in the store and made no successful write. *)
C7_FailedLoginLeavesStore ==
    [][pc'["L"] # pc["L"] =>
        /\ store' # store => (pc'["L"] = "done" /\ result'["L"].err = Nil)
        /\ (LoginEnded' /\ result'["L"].err # Nil) =>
                \A i \in DOMAIN writes'["L"] : ~writes'["L"][i].ok]_vars

\* Login failed at the persistence step, the earlier credential still stored
C7_Witness ==
    /\ pc["L"] = "done"
    /\ result["L"].err = Err("login failed", "IOError")
    /\ Len(writes["L"]) = 1
    /\ store.present
    /\ store # writes["L"][1].info

\* Login returned through the cancellation branch
ReturnedOnCancel ==
    /\ pc["L"] = "done"
    /\ ctxDone
    /\ lQs = NoValues
    /\ result["L"].err = Nil

(* C8, as claimed: when Login has returned because the cancellation signal *)
(* fired, its callback listener has left the Listening state.              *)
C8_ListenerReleasedOnCancel ==
    ReturnedOnCancel => listener # "Listening"

(* C9: once Login has received callback parameters with neither an "error" *)
(* key nor a "code" key, it has returned the login-failed error, with no   *)
(* network call and no store write.                                        *)
C9_MissingCodeFails ==
    (lQs # NoValues /\ "error" \notin DOMAIN lQs /\ "code" \notin DOMAIN lQs)
        => /\ pc["L"] = "done"
           /\ result["L"].err = Err("login failed", "")
           /\ LoginDidNothing

\* Login returned on a callback carrying only a state
C9_Witness ==
    /\ pc["L"] = "done"
    /\ lQs = ("state" :> "s1")
    /\ result["L"].err # Nil

\* the discovery call was made and failed, or answered another status than 200
DiscoveryFailed ==
    /\ Len(calls["L"]) >= 2
    /\ lDiscovery.err \/ lDiscovery.statusCode # 200

(* C10: once the tenant discovery call has returned an error or a status   *)
(* other than 200, Login has returned a login-failed error; the discovery  *)
(* was its last call (no tenant-scoped refresh exchange) and it made no    *)
(* store write.                                                            *)
C10_DiscoveryFailureFails ==
    DiscoveryFailed =>
        /\ pc["L"] = "done"
        /\ result["L"].err =
             IF lDiscovery.err THEN Err("login failed", "request error")
             ELSE Err("login failed : ", "bits")
        /\ Len(calls["L"]) = 2
        /\ calls["L"][2].api = "queryAuthorizationAPI"
        /\ writes["L"] = <<>>

\* Login returned on a 401 of the discovery whose body lists tenants
C10_Witness ==
    /\ pc["L"] = "done"
    /\ lDiscovery.statusCode = 401
    /\ lDiscovery.value # <<>>
    /\ result["L"].err.msg = "login failed : "

----------------------------------------------------------------------------
(* Properties of the calls and of the order of the steps *)

\* the calls of execution p to the api given, with the grant given
CallsOf(p, api, grant) ==
    { i \in DOMAIN calls[p] :
        calls[p][i].api = api /\ calls[p][i].grant_type = grant }

\* a call of execution p failed: it is its last call and p has returned an
\* error
FailedCallEnds(p) ==
    \A i \in DOMAIN calls[p] :
        ~calls[p][i].ok =>
            /\ i = Len(calls[p])
            /\ pc[p] = "done"
            /\ result[p].err # Nil

(* C11: no call is retried. A Login makes at most one queryToken call with *)
(* grant authorization_code, at most one with grant refresh_token and at   *)
(* most one queryAuthorizationAPI call; a GetValidToken makes at most one  *)
(* queryToken call; a call that fails is the last call of its operation,   *)
(* which has returned an error.                                            *)
C11_NoRetry ==
    /\ Cardinality(CallsOf("L", "queryToken", "authorization_code")) <= 1
    /\ Cardinality(CallsOf("L", "queryToken", "refresh_token")) <= 1
    /\ Cardinality(CallsOf("L", "queryAuthorizationAPI", "")) <= 1
    /\ Len(calls["L"]) <= 3
    /\ \A g \in Getters :
        /\ Len(calls[g]) <= 1
        /\ \A i \in DOMAIN calls[g] : calls[g][i].api = "queryToken"
    /\ \A p \in Procs : FailedCallEnds(p)

\* Login made its three calls, the last failed, and a GetValidToken made
\* its one call, which failed
C11_Witness ==
    /\ Len(calls["L"]) = 3
    /\ ~calls["L"][3].ok
    /\ \E g \in Getters : Len(calls[g]) = 1 /\ ~calls[g][1].ok

\* Login has taken callback parameters from the channel
Received == lQs # NoValues

\* what Login returns, from what it received and what its calls and its
\* write returned: the context is no part of it
LoginOutcome ==
    IF "error" \in DOMAIN lQs THEN Err("login failed : %s", lQs["error"])
    ELSE IF "code" \notin DOMAIN lQs THEN Err("login failed", "")
    ELSE IF Len(calls["L"]) >= 1 /\ ~calls["L"][1].ok
        THEN Err("Access token request failed", "AuthError")
    ELSE IF lDiscovery.err THEN Err("login failed", "request error")
    ELSE IF lDiscovery.statusCode # 200 THEN Err("login failed : ", "bits")
    ELSE IF ~lDiscovery.valid THEN Err("login failed", "ParseError")
    ELSE IF lDiscovery.value = <<>> THEN Err("panic", "index out of range")
    ELSE IF Len(calls["L"]) >= 3 /\ ~calls["L"][3].ok
        THEN Err("login failed", "AuthError")
    ELSE IF Len(writes["L"]) >= 1 /\ ~writes["L"][1].ok
        THEN Err("login failed", "IOError")
    ELSE Nil

(* C12: once Login has taken the callback parameters, the cancellation     *)
(* signal plays no part: while Login has not ended its next step can be    *)
(* taken whether or not the context is cancelled, and when it has ended    *)
(* its outcome is the one its inputs (parameters, call results, write      *)
(* result) give, the same with and without the cancellation.               *)
C12_CancelAfterReceiveIgnored ==
    Received =>
        /\ ~LoginEnded => ENABLED Login
        /\ LoginEnded => result["L"].err = LoginOutcome
        /\ (LoginEnded /\ result["L"].err = Nil) =>
                /\ Len(writes["L"]) = 1
                /\ writes["L"][1].ok

\* the context was cancelled while Login was past its select, and Login
\* went on to succeed
C12_Witness ==
    /\ cancelledAt = "running"
    /\ pc["L"] = "done"
    /\ result["L"].err = Nil
    /\ Len(writes["L"]) = 1
    /\ store = LoginInfo

(* C13: a GetValidToken that finds no credential in the store returns the  *)
(* store's not-found error and the empty token, with no queryToken call    *)
(* and no store write.                                                     *)
C13_NotFoundPropagates ==
    [][\A g \in Getters :
        (pc[g] = "start" /\ pc'[g] # "start" /\ ~store.present) =>
            /\ pc'[g] = "done"
            /\ result'[g] = [err |-> Err("not found", "NotFound"),
                             token |-> EmptyToken]
            /\ calls'[g] = <<>>
            /\ writes'[g] = <<>>
            /\ store' = store]_vars

\* a GetValidToken returned not-found from an empty store
C13_Witness ==
    \E g \in Getters :
        /\ pc[g] = "done"
        /\ result[g].err = Err("not found", "NotFound")
        /\ ~store.present
        /\ calls[g] = <<>>

\* Login returned nil after the whole flow (not through cancellation)
LoginSucceeded == pc["L"] = "done" /\ result["L"].err = Nil /\ Received

(* C14: a successful Login has made, in this order, the code exchange      *)
(* against "organizations", the tenant discovery with that bearer token    *)
(* and the refresh exchange against the first discovered tenant with the   *)
(* refresh token of the code exchange; calls are made only after the       *)
(* callback was received and before the write; the single write is its     *)
(* last step and stores {first discovered tenant, token of the tenant      *)
(* refresh exchange}, not the token of the code exchange.                  *)
C14_LoginOrder ==
    [][/\ LoginSucceeded' =>
            /\ calls'["L"] =
                 << TokenCall("authorization_code", lCode', "organizations",
                              TRUE),
                    AuthorizationCall(lToken'.AccessToken, TRUE),
                    RefreshCall(lToken'.RefreshToken, lDiscovery'.value[1],
                                TRUE) >>
            /\ writes'["L"] =
                 << [info |-> TokenInfo(lDiscovery'.value[1], lTenantToken'),
                     ok |-> TRUE] >>
            /\ conv'["L"].done
            /\ lTenantToken'.AccessToken = conv'["L"].response.AccessToken
            /\ lTenantToken'.RefreshToken = conv'["L"].response.RefreshToken
            /\ lTenantToken'.RefreshToken = RefreshTokenOf(lDiscovery'.value[1])
            /\ lTenantToken'.RefreshToken # lToken'.RefreshToken
            /\ lTenantToken'.AccessToken # lToken'.AccessToken
       /\ calls'["L"] # calls["L"] => (Received /\ writes["L"] = <<>>)
       /\ writes'["L"] # writes["L"] =>
            (Len(calls["L"]) = 3 /\ LoginEnded' /\ writes["L"] = <<>>)]_vars

\* Login succeeded and the store holds the first of the two tenants
\* discovered
C14_Witness ==
    /\ LoginSucceeded
    /\ Len(lDiscovery.value) = 2
    /\ store = TokenInfo(lDiscovery.value[1], lTenantToken)
    /\ store.Token.AccessToken = "at_t2"

----------------------------------------------------------------------------
(* Properties of the store under interleaving *)

\* execution p writes the store in this step
Writes(p) == pc[p] = "writeLoginInfo" /\ writes'[p] # writes[p] /\ store' # store

(* C15, as claimed: under any interleaving, the tenant ID in the store     *)
(* right after a write of GetValidToken equals the tenant ID that was in   *)
(* the store right before that write.                                      *)
C15_WriteKeepsStoredTenant ==
    [][\A g \in Getters :
        Writes(g) => store'.TenantID = store.TenantID]_vars

\* the tenants whose endpoints issue tokens to this service
StoredTenants == {"t1", "t2"}

\* the credential was issued whole by the endpoint of its tenant
IssuedBy(info, tenantID) ==
    /\ tenantID \in StoredTenants
    /\ info.TenantID = tenantID
    /\ info.Token.RefreshToken = RefreshTokenOf(tenantID)
    /\ info.Token.AccessToken \in {AccessTokenOf(tenantID), ""}
    /\ info.Token.TokenType = "Bearer"

\* the store holds what one successful write of one execution put there
WrittenWhole ==
    \E p \in Procs : \E i \in DOMAIN writes[p] :
        /\ writes[p][i].ok
        /\ writes[p][i].info = store
        /\ conv[p].done
        /\ conv[p].response \in AzureTokens(store.TenantID)

(* C16: in every reachable state the store is empty or holds one           *)
(* credential, the one it started with or one written whole by a single    *)
(* write of a single operation, and its token is one a refresh_token       *)
(* exchange against the endpoint of the tenant stored with it returned.    *)
C16_StoreConsistent ==
    store.present =>
        /\ IssuedBy(store, store.TenantID)
        /\ store \in InitialStores \/ WrittenWhole

\* Login and a GetValidToken have both written, the GetValidToken last and
\* for the tenant it had read before the Login wrote another
C16_Witness ==
    \E g \in Getters :
        /\ pc[g] = "done"
        /\ writes[g] # <<>>
        /\ writes[g][1].ok
        /\ store = writes[g][1].info
        /\ LoginSucceeded
        /\ store.TenantID # lTenantID

(* C17: the pending channel never blocks the listener: it never holds more *)
(* than its capacity of 1, and whenever the listener is still Listening    *)
(* the channel has room, so its one delivery can be made at once, also     *)
(* after Login has returned and with no receiver left.                     *)
C17_DeliveryNeverBlocks ==
    /\ Len(queryCh) <= QueryChCapacity
    /\ listener = "Listening" => (CanSend(queryCh) /\ ENABLED HandleCallback)

\* the listener delivered after Login had returned on cancellation: the
\* parameters stay in the channel, never received
C17_Witness ==
    /\ ReturnedOnCancel
    /\ listener = "Delivered"
    /\ Len(queryCh) = 1

\* Login is blocked in its select: no cancellation, nothing delivered
Blocked == pc["L"] = "select" /\ ~ctxDone /\ queryCh = <<>>

(* C18, as claimed: once the listener has started and the cancellation has *)
(* fired or callback parameters are in the pending channel, Login          *)
(* eventually returns (every call it makes returns, and it keeps being     *)
(* scheduled: FairSpec); while neither has happened Login stays blocked in *)
(* its select and has made no network call and no store write.             *)
C18_LoginEventuallyReturns ==
    /\ (pc["L"] = "select" /\ (ctxDone \/ queryCh # <<>>)) ~> (pc["L"] = "done")
    /\ [](Blocked => LoginDidNothing)

\* what does hold of C18's liveness half: under FairSpec a Login whose
\* select has a ready branch eventually returns or faults
LoginEventuallyEnds ==
    (pc["L"] = "select" /\ (ctxDone \/ queryCh # <<>>))
        ~> (pc["L"] = "done" \/ pc["L"] = "panic")

\* C18's second half holds: a blocked Login has done nothing yet
BlockedDidNothing == Blocked => LoginDidNothing

\* the token toOAuthToken is to make of the response c.response at time c.at
Converted(c) ==
    [AccessToken |-> c.response.AccessToken,
     RefreshToken |-> c.response.RefreshToken,
     TokenType |-> c.response.Type,
     Expiry |-> c.at + c.response.ExpiresIn]

\* the store holds the token execution p made of a response with
\* expires_in 0
StoredWithZeroExpiresIn(p) ==
    /\ conv[p].done
    /\ conv[p].response.ExpiresIn = 0
    /\ writes[p] # <<>>
    /\ writes[p][1].ok
    /\ writes[p][1].info = store

(* C19: every token Login or GetValidToken writes to the store carries the *)
(* access token, refresh token and token type of the provider's response   *)
(* unchanged and has a known expiry, the time of the conversion plus the   *)
(* response's expires-in; a GetValidToken that reads a token made of a     *)
(* response with expires-in 0 takes it as expired and goes on to refresh.  *)
C19_WrittenTokenExpiry ==
    [][/\ \A p \in Procs :
            writes'[p] # writes[p] =>
                LET w == writes'[p][Len(writes'[p])] IN
                /\ conv[p].done
                /\ w.info.Token = Converted(conv[p])
                /\ w.info.Token.Expiry # ZeroTime
                /\ w.info.Token.Expiry >= conv[p].at
       /\ \A g \in Getters : \A p \in Procs :
            (Checks(g) /\ StoredWithZeroExpiresIn(p)) =>
                (pc'[g] = "refreshToken" /\ gInfo'[g] = store)]_vars

\* a GetValidToken goes to refresh a token that another execution made,
\* later than time 0, of a response with expires_in 0
C19_Witness ==
    \E g \in Getters : \E p \in Procs \ {g} :
        /\ pc[g] = "refreshToken"
        /\ conv[p].done
        /\ conv[p].response.ExpiresIn = 0
        /\ conv[p].at > 0
        /\ writes[p] # <<>>
        /\ writes[p][1].ok
        /\ gInfo[g] = writes[p][1].info

====
